---------------------------- MODULE Spec2Model ----------------------------
(* A model of valid/sandia_valid/valid.py: the extraction driver (extract),   *)
(* the loader (load), the validator (validate) and the field batching they    *)
(* share (_field_iter, _make_full_fields, _make_fields, _field_index).        *)
(*                                                                            *)
(* Four specifications share one set of variables:                            *)
(*   Spec          a run of extract(fields, timelist, caselist, force)        *)
(*   SpecLoad      a run of load(fields, timelist)                            *)
(*   SpecValidate  a run of validate(times, results, fields)                  *)
(*   SpecFields    _field_iter consumed batch by batch, each batch named      *)
(*                 with _make_fields as extract and load name it              *)
(* External commands, the file system and the sampled data are the            *)
(* environment: each answer is chosen when the code asks for it.              *)
EXTENDS Integers, Sequences, FiniteSets, TLC

VARIABLES
    fields,            \* the requested field list
    timelist,          \* the requested time list
    force,             \* extract's force flag
    caselist,          \* extract's explicit case list
    for_extract,       \* the flag given to _field_iter / _make_fields
    pc,                \* position in the running function
    exc,               \* the exception that left the function, or "none"
    cwd,               \* the process working directory
    todo,              \* the cases valid() has still to consider
    case,              \* the case being processed
    field_list,        \* _field_iter's remaining fields
    yielded,           \* the batches _field_iter has yielded so far
    sysfile,           \* case -> text of <case>/system/extractAxial
    log,               \* the external operations performed, in order
    listing,           \* times(case): the time directories still to yield
    time,              \* the time directory being loaded
    composite_fields,  \* the matrix under assembly
    results,           \* case -> (time -> matrix)
    timev,             \* the set of known times
    missed,            \* history: cases in which a missing directory or file was met
    assembled,         \* history: <<case, time dir>> whose batches were all read
    vtimes,            \* validate: the times still to iterate
    comp,              \* validate: the baseline matrix of the current time
    vcases,            \* validate: the cases still to compare at the current time
    out                \* validate: the lines printed

vars == <<fields, timelist, force, caselist, for_extract, pc, exc, cwd, todo,
          case, field_list, yielded, sysfile, log, listing, time,
          composite_fields, results, timev, missed, assembled, vtimes, comp,
          vcases, out>>

inputs == <<fields, timelist, force, caselist, for_extract>>
extractVars == <<cwd, sysfile>>
loadVars == <<listing, time, composite_fields, results, timev, missed, assembled>>
validateVars == <<vtimes, comp, vcases, out>>

----------------------------------------------------------------------------
(* Bounds of the model.                                                      *)

\* how many field names of CodepointOrder the requested lists draw from
NumNames == 17
\* the longest requested list of SpecFields that is not sorted
MaxLen == 11
\* rows of a sampled file
NumRows == 2

----------------------------------------------------------------------------
(* Field names and their order.                                              *)

\* Python's sorted() on str compares code points: upper case before lower case.
CodepointOrder ==
    <<"G", "H2", "H2O", "HO2", "N2", "NO", "O", "O2", "OH", "Qdot", "T", "U",
      "alphat", "epsilon", "k", "nut", "p", "rho">>

Names == SubSeq(CodepointOrder, 1, NumNames)

Range(s) == {s[i] : i \in DOMAIN s}

\* Python's None where a matrix is expected; a matrix has NumRows >= 1 rows
None == << >>

Min(a, b) == IF a <= b THEN a ELSE b

Abs(x) == IF x < 0 THEN -x ELSE x

\* sorted(S) for a set S of names
sorted(S) == SelectSeq(CodepointOrder, LAMBDA n : n \in S)

\* sep.join(s) for a sequence of strings
RECURSIVE join(_, _)
join(sep, s) ==
    IF s = <<>> THEN ""
    ELSE IF Len(s) = 1 THEN s[1]
    ELSE s[1] \o sep \o join(sep, Tail(s))

\* list.index(x): the first position of x (0-based), when x is in the list
index(x, s) ==
    (CHOOSE i \in DOMAIN s : s[i] = x /\ \A j \in 1..(i - 1) : s[j] # x) - 1

\* list.index(x) raises ValueError when x is not in the list
index_raises(x, s) == x \notin Range(s)

req_fields == {"U", "alphat", "nut", "k", "epsilon", "G"}

BatchSize == 10

_make_full_fields_KeepU(f, fe) == sorted(req_fields \cup Range(f))

_make_full_fields(f, fe) ==
    LET subtract == IF ~fe THEN {"U"} ELSE {}
    IN  sorted((req_fields \cup Range(f)) \ subtract)

_make_fields(f, fe) ==
    LET full == _make_full_fields(f, fe)
    IN  IF fe THEN "(" \o join(" ", full) \o ")" ELSE join("_", full)

\* the batch _field_iter yields from field_list, and what it keeps
_field_iter_yield(fl) == SubSeq(fl, 1, Min(BatchSize, Len(fl)))

_field_iter_rest_DropOne(fl) == SubSeq(fl, Min(BatchSize, Len(fl)) + 2, Len(fl))

_field_iter_rest(fl) == SubSeq(fl, Min(BatchSize, Len(fl)) + 1, Len(fl))

\* the whole sequence of batches of a field list; the flag is not read
RECURSIVE _field_iter(_, _)
_field_iter(fl, fe) ==
    IF fl = <<>> THEN <<>>
    ELSE <<_field_iter_yield(fl)>> \o _field_iter(_field_iter_rest(fl), fe)

_field_index(x, f, fe) == index(x, _make_full_fields(f, fe))

_num_fields(f, fe) == Len(_make_full_fields(f, fe))

----------------------------------------------------------------------------
(* Inputs.                                                                   *)

\* sorted requested lists: the runs of consecutive names
SortedLists == {SubSeq(Names, i, j) : i \in 1..(NumNames + 1), j \in 0..NumNames}

\* lists in any order, with repetitions
RECURSIVE SeqsUpTo(_, _)
SeqsUpTo(S, n) ==
    IF n = 0 THEN {<<>>}
    ELSE LET shorter == SeqsUpTo(S, n - 1)
         IN  shorter \cup {Append(s, x) : s \in {q \in shorter : Len(q) = n - 1}, x \in S}

AnyLists == SortedLists \cup SeqsUpTo({"p", "T"}, MaxLen)

RECURSIVE Flatten(_)
Flatten(ss) == IF ss = <<>> THEN <<>> ELSE Head(ss) \o Flatten(Tail(ss))

----------------------------------------------------------------------------
(* SpecFields: _field_iter, batch by batch.                                  *)

IdleExtract == cwd = "home" /\ sysfile = <<>>
IdleLoad ==
    /\ listing = {} /\ time = "none" /\ composite_fields = None
    /\ results = <<>> /\ timev = {} /\ missed = {} /\ assembled = {}
IdleValidate == vtimes = {} /\ comp = None /\ vcases = <<>> /\ out = <<>>

InitFields ==
    /\ fields \in AnyLists
    /\ for_extract \in BOOLEAN
    /\ timelist = <<>> /\ force = FALSE /\ caselist = <<>>
    /\ pc = "iter" /\ exc = "none"
    /\ todo = <<>> /\ case = "none"
    /\ field_list = fields
    /\ yielded = <<>>
    /\ log = <<>>
    /\ IdleExtract /\ IdleLoad /\ IdleValidate

\* one turn of `while field_list`: yield a batch; the caller names it
FieldIterYield ==
    /\ pc = "iter" /\ field_list # <<>>
    /\ LET f == _field_iter_yield(field_list)
       IN  /\ yielded' = Append(yielded, f)
           /\ log' = Append(log, [full |-> _make_full_fields(f, for_extract),
                                  text |-> _make_fields(f, for_extract)])
    /\ field_list' = _field_iter_rest(field_list)
    /\ UNCHANGED <<inputs, pc, exc, todo, case, extractVars, loadVars, validateVars>>

FieldIterStop ==
    /\ pc = "iter" /\ field_list = <<>>
    /\ pc' = "done"
    /\ UNCHANGED <<inputs, exc, todo, case, field_list, yielded, log,
                   extractVars, loadVars, validateVars>>

NextFields == FieldIterYield \/ FieldIterStop

SpecFields == InitFields /\ [][NextFields]_vars

----------------------------------------------------------------------------
(* Properties of SpecFields.                                                 *)

Pos(n) == CHOOSE i \in DOMAIN CodepointOrder : CodepointOrder[i] = n

IsSorted(s) == \A i \in 1..(Len(s) - 1) : Pos(s[i]) < Pos(s[i + 1])

\* C7: for every field list, _field_iter yields non-empty batches of at most
\* 10 fields whose concatenation, in yield order, is the list itself; an empty
\* list yields no batch; and the batches are those of the other context
\* (extraction or loading) too.
C7_BatchesRejoin ==
    /\ \A i \in DOMAIN yielded : yielded[i] # <<>> /\ Len(yielded[i]) <= BatchSize
    /\ Flatten(yielded) \o field_list = fields
    /\ pc = "done" =>
          /\ Flatten(yielded) = fields
          /\ fields = <<>> => yielded = <<>>
          /\ yielded = _field_iter(fields, ~for_extract)

C7_Witness ==
    /\ pc = "done"
    /\ Len(fields) > BatchSize
    /\ ~IsSorted(fields)
    /\ Len(yielded) = 2

\* C8 as stated: the batches split the canonical full field list, and no
\* sampling configuration or file name carries more than 10 field names.
C8_Original ==
    /\ \A i \in DOMAIN log : Len(log[i].full) <= BatchSize
    /\ pc = "done" => Flatten(yielded) = _make_full_fields(fields, for_extract)

\* C8 amended: the batches split the requested list; each batch is named with
\* the required fields added (velocity removed when loading), sorted, so a
\* sampling configuration names at most 10 + 6 fields and a file name joins at
\* most 10 + 5.
C8_BatchNames ==
    /\ Flatten(yielded) \o field_list = fields
    /\ Len(log) = Len(yielded)
    /\ \A i \in DOMAIN log :
          LET f == yielded[i]
              full == log[i].full
              velocity == IF for_extract THEN {} ELSE {"U"}
          IN  /\ Len(f) <= BatchSize
              /\ Range(full) = (req_fields \cup Range(f)) \ velocity
              /\ IsSorted(full)
              /\ Len(full) <= BatchSize + Cardinality(req_fields \ velocity)

C8_Witness ==
    /\ for_extract
    /\ \E i \in DOMAIN log : Len(log[i].full) = BatchSize + Cardinality(req_fields)
    /\ Len(yielded) = 2

----------------------------------------------------------------------------
(* extract: the environment.                                                 *)

Home == "home"

\* os.listdir(home): two case directories and the script itself, a file
HomeListing == <<"SandiaD_LTS", "valid.py", "SandiaD_LTS_seulex">>

HomeDirs == {"SandiaD_LTS", "SandiaD_LTS_seulex"}

\* os.path.isdir(os.path.join(os.getcwd(), name)): the case directories are
\* entries of home and hold no entry named like a case
isdir(dir, name) == dir = Home /\ name \in HomeDirs

\* explicit case lists; the empty one stands for "list the home directory"
CaseLists ==
    {<<>>, <<"SandiaD_LTS_seulex", "SandiaD_LTS">>, <<"valid.py", "SandiaD_LTS">>}

\* times are counted in hundredths: 5000 is 500000, 5000.01 is 500001
TimeScale == 10 * 10

TimeLists == {<<>>, <<5000 * TimeScale>>, <<5000 * TimeScale, 5000 * TimeScale + 1>>}

Digits == <<"0", "1", "2", "3", "4", "5", "6", "7", "8", "9">>

RECURSIVE IntStr(_)
IntStr(n) == IF n < 10 THEN Digits[n + 1] ELSE IntStr(n \div 10) \o Digits[(n % 10) + 1]

\* str(x) of a requested time: an int prints its digits, a float prints its
\* shortest decimal form
str(t) ==
    LET whole == t \div TimeScale
        frac == t % TimeScale
    IN  IF frac = 0 THEN IntStr(whole)
        ELSE IF frac % 10 = 0 THEN IntStr(whole) \o "." \o Digits[(frac \div 10) + 1]
        ELSE IntStr(whole) \o "." \o Digits[(frac \div 10) + 1] \o Digits[(frac % 10) + 1]

_make_times == join(",", [i \in DOMAIN timelist |-> str(timelist[i])])

\* the one line of the skeleton that substitute() fills in
skeleton(s) == "fields  " \o s \o ";"

\* the application named in system/controlDict
Application == "reactingFoam"

ReconstructCall_AlwaysNewTimes ==
    <<"reconstructPar", "-newTimes">>
        \o (IF timelist # <<>> THEN <<"-time", _make_times>> ELSE <<>>)

ReconstructCall ==
    <<"reconstructPar">>
        \o (IF ~force THEN <<"-newTimes">> ELSE <<>>)
        \o (IF timelist # <<>> THEN <<"-time", _make_times>> ELSE <<>>)

SetCall ==
    <<"foamDictionary", "-entry", "functions", "-set",
      "{#includeFunc extractAxial}", "system/controlDict">>

AppCall == <<"foamDictionary", "-entry", "application", "-value", "system/controlDict">>

PostProcessCall(app) ==
    <<app, "-postProcess">>
        \o (IF timelist # <<>> THEN <<"-time", _make_times>> ELSE <<>>)

\* what a subprocess call can do: run and exit 0, not be found, exit non-zero,
\* or fail in another way (not executable)
CmdOutcomes == {"ok", "FileNotFoundError", "CalledProcessError", "OSError"}

\* what open(..., 'w') can do: succeed, find no system directory, or fail in
\* another way (no permission)
FileOutcomes == {"ok", "FileNotFoundError", "OSError"}

CaughtOnlyMissing == {"FileNotFoundError"}

\* the exceptions extract's try statement catches
Caught == {"FileNotFoundError", "CalledProcessError"}

FinallyStay(dir) == dir

\* finally: os.chdir(home)
Finally(dir) == Home

\* the entries valid() has still to look at once it has skipped those that
\* are no directory
RECURSIVE valid(_, _)
valid(dir, entries) ==
    IF entries = <<>> THEN <<>>
    ELSE IF isdir(dir, Head(entries)) THEN entries
    ELSE valid(dir, Tail(entries))

Entry(c, op, argv, outcome, config, value) ==
    [case |-> c, op |-> op, argv |-> argv, outcome |-> outcome,
     config |-> config, value |-> value]

----------------------------------------------------------------------------
(* Spec: a run of extract.                                                   *)

Init ==
    /\ fields \in {SubSeq(Names, 1, n) : n \in 0..NumNames}
    /\ timelist \in TimeLists
    /\ force \in BOOLEAN
    /\ caselist \in CaseLists
    /\ for_extract = TRUE
    /\ pc = "next_case" /\ exc = "none"
    /\ cwd = Home
    /\ todo = IF caselist = <<>> THEN HomeListing ELSE caselist
    /\ case = "none"
    /\ field_list = <<>>
    /\ yielded = <<>>
    /\ sysfile = [c \in HomeDirs |-> ""]
    /\ log = <<>>
    /\ IdleLoad /\ IdleValidate

\* the try statement is left by an exception: the handlers, then finally
Leave(outcome) ==
    /\ cwd' = Finally(cwd)
    /\ IF outcome \in Caught
       THEN pc' = "next_case" /\ exc' = exc
       ELSE pc' = "raised" /\ exc' = outcome

\* for case in valid(...): os.chdir(case)
ExtractNextCase ==
    /\ pc = "next_case"
    /\ valid(cwd, todo) # <<>>
    /\ case' = Head(valid(cwd, todo))
    /\ todo' = Tail(valid(cwd, todo))
    /\ cwd' = case'
    /\ pc' = "reconstruct"
    /\ yielded' = <<>>
    /\ UNCHANGED <<inputs, exc, field_list, sysfile, log, loadVars, validateVars>>

\* valid() is exhausted: extract returns
ExtractReturn ==
    /\ pc = "next_case"
    /\ valid(cwd, todo) = <<>>
    /\ todo' = <<>>
    /\ pc' = "returned"
    /\ UNCHANGED <<inputs, exc, cwd, case, field_list, yielded, sysfile, log,
                   loadVars, validateVars>>

Reconstruct ==
    /\ pc = "reconstruct"
    /\ \E outcome \in CmdOutcomes :
          /\ log' = Append(log, Entry(case, "reconstructPar", ReconstructCall,
                                      outcome, sysfile[case], ""))
          /\ IF outcome = "ok"
             THEN /\ field_list' = fields
                  /\ pc' = "batch"
                  /\ UNCHANGED <<cwd, exc>>
             ELSE /\ Leave(outcome)
                  /\ UNCHANGED field_list
    /\ UNCHANGED <<inputs, todo, case, yielded, sysfile, loadVars, validateVars>>

\* for f in _field_iter(fields): write system/extractAxial
WriteConfig ==
    /\ pc = "batch" /\ field_list # <<>>
    /\ LET f == _field_iter_yield(field_list)
           text == skeleton(_make_fields(f, TRUE))
       IN  \E outcome \in FileOutcomes :
              /\ yielded' = Append(yielded, f)
              /\ field_list' = _field_iter_rest(field_list)
              /\ IF outcome = "ok"
                 THEN /\ sysfile' = [sysfile EXCEPT ![case] = text]
                      /\ log' = Append(log, Entry(case, "write", <<>>, outcome, text, ""))
                      /\ pc' = "set"
                      /\ UNCHANGED <<cwd, exc>>
                 ELSE /\ log' = Append(log, Entry(case, "write", <<>>, outcome,
                                                  sysfile[case], ""))
                      /\ Leave(outcome)
                      /\ UNCHANGED sysfile
    /\ UNCHANGED <<inputs, todo, case, loadVars, validateVars>>

\* _field_iter is exhausted: the try statement ends, finally runs
BatchesDone ==
    /\ pc = "batch" /\ field_list = <<>>
    /\ cwd' = Finally(cwd)
    /\ pc' = "next_case"
    /\ UNCHANGED <<inputs, exc, todo, case, field_list, yielded, sysfile, log,
                   loadVars, validateVars>>

SetExtractor ==
    /\ pc = "set"
    /\ \E outcome \in CmdOutcomes :
          /\ log' = Append(log, Entry(case, "set", SetCall, outcome, sysfile[case], ""))
          /\ IF outcome = "ok"
             THEN pc' = "app" /\ UNCHANGED <<cwd, exc>>
             ELSE Leave(outcome)
    /\ UNCHANGED <<inputs, todo, case, field_list, yielded, sysfile, loadVars,
                   validateVars>>

ReadApplication ==
    /\ pc = "app"
    /\ \E outcome \in CmdOutcomes :
          IF outcome = "ok"
          THEN /\ log' = Append(log, Entry(case, "app", AppCall, outcome,
                                           sysfile[case], Application))
               /\ pc' = "post"
               /\ UNCHANGED <<cwd, exc>>
          ELSE /\ log' = Append(log, Entry(case, "app", AppCall, outcome,
                                           sysfile[case], ""))
               /\ Leave(outcome)
    /\ UNCHANGED <<inputs, todo, case, field_list, yielded, sysfile, loadVars,
                   validateVars>>

PostProcess ==
    /\ pc = "post"
    /\ \E outcome \in CmdOutcomes :
          /\ log' = Append(log, Entry(case, "post", PostProcessCall(log[Len(log)].value),
                                      outcome, sysfile[case], ""))
          /\ IF outcome = "ok"
             THEN pc' = "batch" /\ UNCHANGED <<cwd, exc>>
             ELSE Leave(outcome)
    /\ UNCHANGED <<inputs, todo, case, field_list, yielded, sysfile, loadVars,
                   validateVars>>

Next ==
    \/ ExtractNextCase
    \/ ExtractReturn
    \/ Reconstruct
    \/ WriteConfig
    \/ BatchesDone
    \/ SetExtractor
    \/ ReadApplication
    \/ PostProcess

Spec == Init /\ [][Next]_vars

----------------------------------------------------------------------------
(* Properties of Spec (extract).                                             *)

\* the case directories extract has to process, in order
CasesToProcess ==
    SelectSeq(IF caselist = <<>> THEN HomeListing ELSE caselist,
              LAMBDA n : n \in HomeDirs)

CaseLog(c) == SelectSeq(log, LAMBDA e : e.case = c)

\* the processing of c is over
Finished(c) == CaseLog(c) # <<>> /\ (c # case \/ pc \in {"next_case", "returned", "raised"})

Succeeded(c) == Finished(c) /\ \A i \in DOMAIN CaseLog(c) : CaseLog(c)[i].outcome = "ok"

IsPrefix(s, t) == Len(s) <= Len(t) /\ \A i \in DOMAIN s : s[i] = t[i]

\* C1: whatever happened to a case, the working directory is the starting
\* directory again when the next case is considered, when extract returns and
\* when an exception leaves extract.
C1_CwdRestored == pc \in {"next_case", "returned", "raised"} => cwd = Home

C1_Witness ==
    /\ pc = "raised" /\ exc = "OSError"
    /\ \E i \in DOMAIN log : log[i].outcome \in {"FileNotFoundError", "CalledProcessError"}
    /\ cwd = Home

\* the operations of a case when nothing fails, as the inputs alone fix them
OpsOfBatch(f) ==
    <<[op |-> "write", argv |-> <<>>],
      [op |-> "set", argv |-> SetCall],
      [op |-> "app", argv |-> AppCall],
      [op |-> "post", argv |-> PostProcessCall(Application)]>>

OpsOfCase ==
    <<[op |-> "reconstructPar", argv |-> ReconstructCall]>>
        \o Flatten([k \in DOMAIN _field_iter(fields, TRUE) |->
                        OpsOfBatch(_field_iter(fields, TRUE)[k])])

OpsDone(c) == [i \in DOMAIN CaseLog(c) |-> [op |-> CaseLog(c)[i].op, argv |-> CaseLog(c)[i].argv]]

\* the text the last successful write left in <c>/system/extractAxial
RECURSIVE LastWritten(_)
LastWritten(l) ==
    IF l = <<>> THEN ""
    ELSE IF l[Len(l)].op = "write" /\ l[Len(l)].outcome = "ok" THEN l[Len(l)].config
    ELSE LastWritten(SubSeq(l, 1, Len(l) - 1))

\* the cases of the log, in the order they were started
RECURSIVE CasesStarted(_)
CasesStarted(l) ==
    IF l = <<>> THEN <<>>
    ELSE LET before == CasesStarted(SubSeq(l, 1, Len(l) - 1))
         IN  IF l[Len(l)].case \in Range(before) THEN before
             ELSE Append(before, l[Len(l)].case)

\* C2: a missing command or a non-zero exit ends the processing of its case:
\* nothing more is run or written for that case, what was written stays, and
\* the cases after it are processed as they would have been.
C2_FailureIsCaseLocal ==
    /\ \A i \in DOMAIN log :
          log[i].outcome # "ok" => \A j \in (i + 1)..Len(log) : log[j].case # log[i].case
    /\ \A c \in HomeDirs : sysfile[c] = LastWritten(CaseLog(c))
    /\ pc = "raised" => log[Len(log)].outcome \notin {"FileNotFoundError", "CalledProcessError"}
    /\ IsPrefix(CasesStarted(log), CasesToProcess)
    /\ pc = "returned" => CasesStarted(log) = CasesToProcess
    /\ \A c \in HomeDirs :
          /\ IsPrefix(OpsDone(c), OpsOfCase)
          /\ \A i \in 1..(Len(CaseLog(c)) - 1) : CaseLog(c)[i].outcome = "ok"
          /\ Succeeded(c) => OpsDone(c) = OpsOfCase

C2_Witness ==
    /\ pc = "returned"
    /\ Len(CasesToProcess) = 2
    /\ LET first == CaseLog(CasesToProcess[1])
       IN  /\ Len(first) = 3
           /\ first[3].outcome = "CalledProcessError"
           /\ sysfile[CasesToProcess[1]] # ""
    /\ Succeeded(CasesToProcess[2])
    /\ Len(fields) > BatchSize

BatchStep == <<"write", "set", "app", "post">>

TimeArgs(argv) ==
    IF "-time" \in Range(argv) THEN SubSeq(argv, Len(argv) - 1, Len(argv)) ELSE <<>>

\* C10: reconstruction runs once, first; then each batch in order is written,
\* registered, the application is read and run, the run reading the
\* configuration of its own batch; -newTimes goes with "not force", and the
\* same -time list goes to reconstruction and to every run when a time list
\* was given.
C10_OrderOfOperations ==
    \A c \in HomeDirs :
        LET L == CaseLog(c)
            B == _field_iter(fields, TRUE)
        IN  /\ \A i \in DOMAIN L :
                  LET k == ((i - 2) \div 4) + 1
                      step == ((i - 2) % 4) + 1
                  IN  IF i = 1
                      THEN /\ L[i].op = "reconstructPar"
                           /\ L[i].argv[1] = "reconstructPar"
                           /\ ("-newTimes" \in Range(L[i].argv)) <=> ~force
                           /\ ("-time" \in Range(L[i].argv)) <=> timelist # <<>>
                           /\ timelist = <<5000 * TimeScale, 5000 * TimeScale + 1>>
                                 => TimeArgs(L[i].argv) = <<"-time", "5000,5000.01">>
                      ELSE /\ k <= Len(B)
                           /\ L[i].op = BatchStep[step]
                           /\ L[i].op = "write" /\ L[i].outcome = "ok"
                                 => L[i].config = skeleton(_make_fields(B[k], TRUE))
                           /\ L[i].op = "post"
                                 => /\ L[i].config = skeleton(_make_fields(B[k], TRUE))
                                    /\ SubSeq(L[i].argv, 1, 2) = <<L[i - 1].value, "-postProcess">>
                                    /\ TimeArgs(L[i].argv) = TimeArgs(L[1].argv)
                                    /\ Len(L[i].argv) = 2 + Len(TimeArgs(L[1].argv))
            /\ Succeeded(c) => Len(L) = 1 + 4 * Len(B)

C10_Witness ==
    /\ pc = "returned"
    /\ force /\ timelist # <<>>
    /\ Len(fields) > BatchSize
    /\ \E c \in HomeDirs : Succeeded(c) /\ Len(CaseLog(c)) = 9

----------------------------------------------------------------------------
(* load: the environment.                                                    *)

\* the entries postProcessing/extractAxial can hold: two time directories and
\* a file
OutputEntries == {"5000", "5000.01", "extract.log"}

TimeDirs == {"5000", "5000.01"}

\* the times the directories are named after
TimeValues == {5000 * TimeScale, 5000 * TimeScale + 1}

\* float(name) of a time directory's name, in hundredths: the inverse of str
float(name) == CHOOSE t \in TimeValues : str(t) = name

\* 1e-10 is 1 / (TolRoot * TolRoot)
TolRoot == 100000

\* np.isclose(t1, t2, atol=1e-10, rtol=1e-10): |t1 - t2| <= atol + rtol * |t2|,
\* which in hundredths is |t1 - t2| * 1e10 <= 100 + |t2|
_timecheck(t1, t2) ==
    Abs(t1 - t2) <= ((TimeScale + Abs(t2)) \div TolRoot) \div TolRoot

\* the sampled data: the position of row r, and the value of field x there
PosVal(r) == r - 1

CaseNumber(c) == CHOOSE i \in DOMAIN HomeListing : HomeListing[i] = c

Val(c, name, x, r) ==
    1000 * Pos(x) + 100 * CaseNumber(c) + (IF name = "5000" THEN 10 ELSE 20) + r

\* the numbers of line_<names>.xy as the sampling utility writes them: one
\* row per point, the position and then one column per scalar field named
FileNumbers(c, name, f) ==
    Flatten([r \in 1..NumRows |->
                <<PosVal(r)>> \o [k \in DOMAIN _make_full_fields(f, FALSE) |->
                                     Val(c, name, _make_full_fields(f, FALSE)[k], r)]])

\* vals.reshape((-1, ncols))
reshape(flat, ncols) ==
    [r \in 1..(Len(flat) \div ncols) |-> SubSeq(flat, (r - 1) * ncols + 1, r * ncols)]

indicies_NoOffset(f) == [k \in DOMAIN f |-> _field_index(f[k], f, FALSE)]

\* np.array([1 + _field_index(x, f, for_extract=False) for x in f])
indicies(f) == [k \in DOMAIN f |-> 1 + _field_index(f[k], f, FALSE)]

\* a field of the batch that is not in its full list makes .index raise
indicies_raise(f) ==
    \E k \in DOMAIN f : index_raises(f[k], _make_full_fields(f, FALSE))

\* vals[:, ind] for 0-based column indices
columns(vals, ind) == [r \in DOMAIN vals |-> [k \in DOMAIN ind |-> vals[r][ind[k] + 1]]]

\* np.hstack((a, b)) of two matrices with the same rows
hstack(a, b) == [r \in DOMAIN a |-> a[r] \o b[r]]

\* np.expand_dims(vals[:, 0], 1)
firstcolumn(vals) == [r \in DOMAIN vals |-> <<vals[r][1]>>]

\* if not results[nicecase]: del results[nicecase]
cleanup(res, c) ==
    IF DOMAIN res[c] = {} THEN [d \in DOMAIN res \ {c} |-> res[d]] ELSE res

\* the requested times that match t, in list order
matching(t) == SelectSeq(timelist, LAMBDA x : _timecheck(x, t))

----------------------------------------------------------------------------
(* SpecLoad: a run of load.                                                  *)

InitLoad ==
    /\ fields \in SortedLists
    /\ timelist \in TimeLists
    /\ force = FALSE /\ caselist = <<>> /\ for_extract = FALSE
    /\ pc = "next_case" /\ exc = "none"
    /\ todo = HomeListing
    /\ case = "none"
    /\ field_list = <<>>
    /\ yielded = <<>>
    /\ log = <<>>
    /\ listing = {} /\ time = "none" /\ composite_fields = None
    /\ results = <<>>
    /\ timev = Range(timelist)
    /\ missed = {} /\ assembled = {}
    /\ IdleExtract /\ IdleValidate

\* except FileNotFoundError: pass, and the removal of an empty case
LoadMissing ==
    /\ missed' = missed \cup {case}
    /\ results' = cleanup(results, case)
    /\ pc' = "next_case"

\* for case in valid(home): results[nicecase] = {}
LoadNextCase ==
    /\ pc = "next_case"
    /\ valid(cwd, todo) # <<>>
    /\ case' = Head(valid(cwd, todo))
    /\ todo' = Tail(valid(cwd, todo))
    /\ results' = (case' :> <<>>) @@ results
    /\ pc' = "listdir"
    /\ UNCHANGED <<inputs, exc, field_list, yielded, log, listing, time,
                   composite_fields, timev, missed, assembled, extractVars,
                   validateVars>>

LoadReturn ==
    /\ pc = "next_case"
    /\ valid(cwd, todo) = <<>>
    /\ todo' = <<>>
    /\ pc' = "returned"
    /\ UNCHANGED <<inputs, exc, case, field_list, yielded, log, loadVars,
                   extractVars, validateVars>>

\* times(case): os.listdir of the output directory, which may not exist
ListTimes ==
    /\ pc = "listdir"
    /\ \/ /\ LoadMissing
          /\ UNCHANGED listing
       \/ /\ \E entries \in SUBSET OutputEntries : listing' = entries \cap TimeDirs
          /\ pc' = "times"
          /\ UNCHANGED <<results, missed>>
    /\ UNCHANGED <<inputs, exc, todo, case, field_list, yielded, log, time,
                   composite_fields, timev, assembled, extractVars, validateVars>>

\* a time directory that matches no requested time is skipped
SkipTime ==
    /\ pc = "times"
    /\ \E name \in listing :
          /\ timelist # <<>> /\ matching(float(name)) = <<>>
          /\ listing' = listing \ {name}
    /\ UNCHANGED <<inputs, pc, exc, todo, case, field_list, yielded, log, time,
                   composite_fields, results, timev, missed, assembled,
                   extractVars, validateVars>>

StartTime ==
    /\ pc = "times"
    /\ \E name \in listing :
          /\ ~(timelist # <<>> /\ matching(float(name)) = <<>>)
          /\ listing' = listing \ {name}
          /\ time' = name
    /\ composite_fields' = None
    /\ field_list' = fields
    /\ yielded' = <<>>
    /\ pc' = "batch"
    /\ UNCHANGED <<inputs, exc, todo, case, log, results, timev, missed,
                   assembled, extractVars, validateVars>>

\* times(case) is exhausted: the case is done
TimesDone ==
    /\ pc = "times" /\ listing = {}
    /\ results' = cleanup(results, case)
    /\ pc' = "next_case"
    /\ UNCHANGED <<inputs, exc, todo, case, field_list, yielded, log, listing,
                   time, composite_fields, timev, missed, assembled,
                   extractVars, validateVars>>

\* for f in _field_iter(fields, for_extract=False): read and append a batch
ReadBatch ==
    /\ pc = "batch" /\ field_list # <<>>
    /\ LET f == _field_iter_yield(field_list)
           vals == reshape(FileNumbers(case, time, f), _num_fields(f, FALSE) + 1)
           ind == indicies(f)
           svals == columns(vals, ind)
       IN  /\ yielded' = Append(yielded, f)
           /\ field_list' = _field_iter_rest(field_list)
           /\ log' = Append(log, [case |-> case, time |-> time,
                                  file |-> "line_" \o _make_fields(f, FALSE) \o ".xy"])
           /\ \/ /\ LoadMissing
                 /\ UNCHANGED <<exc, composite_fields>>
              \/ /\ indicies_raise(f)
                 /\ exc' = "ValueError"
                 /\ pc' = "raised"
                 /\ UNCHANGED <<composite_fields, results, missed>>
              \/ /\ ~indicies_raise(f)
                 /\ composite_fields' =
                        IF composite_fields = None
                        THEN hstack(firstcolumn(vals), svals)
                        ELSE hstack(composite_fields, svals)
                 /\ UNCHANGED <<pc, exc, results, missed>>
    /\ UNCHANGED <<inputs, todo, case, listing, time, timev, assembled,
                   extractVars, validateVars>>

\* every batch was read: nice_t = next(...), results[nicecase][nice_t] = ...
Store ==
    /\ pc = "batch" /\ field_list = <<>>
    /\ assembled' = assembled \cup {<<case, time>>}
    /\ IF matching(float(time)) = <<>>
       THEN /\ exc' = "StopIteration"
            /\ pc' = "raised"
            /\ UNCHANGED <<results, timev>>
       ELSE LET nice_t == Head(matching(float(time)))
            IN  /\ results' = [results EXCEPT ![case] = (nice_t :> composite_fields) @@ @]
                /\ timev' = timev \cup {nice_t}
                /\ pc' = "times"
                /\ UNCHANGED exc
    /\ UNCHANGED <<inputs, todo, case, field_list, yielded, log, listing, time,
                   composite_fields, missed, extractVars, validateVars>>

NextLoad ==
    \/ LoadNextCase
    \/ LoadReturn
    \/ ListTimes
    \/ SkipTime
    \/ StartTime
    \/ TimesDone
    \/ ReadBatch
    \/ Store

SpecLoad == InitLoad /\ [][NextLoad]_vars

----------------------------------------------------------------------------
(* Properties of SpecLoad.                                                   *)

\* load is done with case c
Loaded(c) == c \in HomeDirs /\ c \notin Range(todo) /\ (c # case \/ pc \in {"next_case", "returned"})

\* C4: a missing output directory or batch file ends the loading of its case
\* only: the case keeps the snapshots it has and stays in the results exactly
\* when it has one, load returns normally, and no case of the returned
\* results has an empty time mapping.
C4_MissingIsCaseLocal ==
    /\ missed # {} => pc # "raised"
    /\ \A c \in missed : Loaded(c) => (c \in DOMAIN results <=> \E n \in TimeDirs :
                                           <<c, n>> \in assembled)
    /\ pc = "returned" => \A c \in DOMAIN results : DOMAIN results[c] # {}

\* what holds of C4 when a time list is given and velocity is not requested
C4_WithTimesGiven ==
    (timelist # <<>> /\ "U" \notin Range(fields)) =>
        /\ pc # "raised"
        /\ \A c \in HomeDirs : Loaded(c) =>
              /\ c \in DOMAIN results <=> \E n \in TimeDirs : <<c, n>> \in assembled
              /\ \A n \in TimeDirs : <<c, n>> \in assembled =>
                     float(n) \in DOMAIN results[c]
        /\ pc = "returned" => \A c \in DOMAIN results : DOMAIN results[c] # {}

\* C5: with an empty requested time list no time directory is skipped, and
\* every time whose batch files were all read is stored in the results and is
\* in the time set; load does not raise on it.
C5_EmptyTimeListLoadsAll ==
    timelist = <<>> =>
        /\ exc # "StopIteration"
        /\ \A a \in assembled :
              /\ a[1] \in DOMAIN results
              /\ float(a[2]) \in DOMAIN results[a[1]]
              /\ float(a[2]) \in timev

\* the column plot draws for the index-th field of sorted(fields), 0-based
PlotColumn(vals, i) == [r \in DOMAIN vals |-> vals[r][1 + i + 1]]

\* the column validate reads for field x: diff is built from vals[:, 1:]
ValidateColumn(vals, x, flds) == [r \in DOMAIN vals |-> vals[r][1 + index(x, flds) + 1]]

\* matrix m is the sample matrix of the requested fields at (c, name)
IsSampleMatrix(m, c, name) ==
    /\ m # None
    /\ DOMAIN m = 1..NumRows
    /\ \A r \in 1..NumRows :
          /\ Len(m[r]) = 1 + Len(fields)
          /\ m[r][1] = PosVal(r)
          /\ \A k \in DOMAIN fields : m[r][1 + k] = Val(c, name, fields[k], r)
    /\ \A k \in DOMAIN fields :
          /\ PlotColumn(m, k - 1) = [r \in 1..NumRows |-> Val(c, name, fields[k], r)]
          /\ ValidateColumn(m, fields[k], fields) =
                 [r \in 1..NumRows |-> Val(c, name, fields[k], r)]

\* the directory a stored time was read from
DirOf(t) == CHOOSE n \in TimeDirs : _timecheck(t, float(n))

\* every batch of (case, time) has been read
AllBatchesRead == pc = "batch" /\ field_list = <<>>

\* C6 as stated: for every sorted requested list, once the batch files of a
\* (case, time) have all been read the assembled matrix has NumRows rows and
\* 1 + |F| columns, the position first and then the fields in list order.
C6_Original ==
    /\ exc # "ValueError"
    /\ AllBatchesRead => IsSampleMatrix(composite_fields, case, time)

\* C6 amended: the same, for a sorted requested list that is not empty and
\* does not hold the velocity U; the matrices stored in the results are these.
C6_AssembledMatrix ==
    (fields # <<>> /\ "U" \notin Range(fields)) =>
        /\ exc # "ValueError"
        /\ AllBatchesRead => IsSampleMatrix(composite_fields, case, time)
        /\ \A c \in DOMAIN results : \A t \in DOMAIN results[c] :
              IsSampleMatrix(results[c][t], c, DirOf(t))

C6_Witness ==
    /\ pc = "returned"
    /\ Len(fields) > BatchSize /\ "U" \notin Range(fields)
    /\ \E c \in DOMAIN results : DOMAIN results[c] = TimeValues
    /\ missed # {}

----------------------------------------------------------------------------
(* validate: inputs and arithmetic.                                          *)

\* the cases of a results collection, in the order load inserted them
ResultCases == <<"SandiaD_LTS", "SandiaD_LTS_seulex", "SandiaD_LTS_accelerint">>

\* validate's default baseline
base == "SandiaD_LTS"

ValidateFields == {<<"T", "p">>, <<"O2", "T">>, <<"N2", "O2">>}

ValidateTimeLists == {<<5000 * TimeScale>>, <<5000 * TimeScale, 5000 * TimeScale + 1>>}

\* sample matrices of two fields: the position, then the two values
BaselineMatrix == <<<<0, 300, 100000>>, <<1, 310, 101000>>>>

CandidateMatrix == <<<<0, 303, 100000>>, <<1, 310, 102010>>>>

Matrices == {BaselineMatrix, CandidateMatrix}

\* the results load can return for a time list: each case has a matrix at
\* some requested times, and a case with none is not in the collection
ResultsFor(tl) ==
    LET perCase == UNION {[ts -> Matrices] : ts \in SUBSET Range(tl)}
        all == [Range(ResultCases) -> perCase]
    IN  {[c \in {d \in Range(ResultCases) : DOMAIN r[d] # {}} |-> r[c]] : r \in all}

\* relative errors are counted in millionths
Ppm == 1000 * 1000

\* the quotient when the baseline value is 0 and the values differ: the
\* divisor is 1e-300
Huge == 2000 * Ppm

RelErr_ByCandidate(c, t) ==
    IF t = 0 THEN (IF c = t THEN 0 ELSE Huge) ELSE (Abs(c - t) * Ppm) \div Abs(t)

\* np.abs(c - t) / (1e-300 + np.abs(c)); 1e-300 changes no quotient of a
\* baseline value that is not 0
RelErr(c, t) ==
    IF c = 0 THEN (IF c = t THEN 0 ELSE Huge) ELSE (Abs(c - t) * Ppm) \div Abs(c)

\* diff: the relative errors of the columns after the position
diff(cm, tm) ==
    [r \in DOMAIN cm |-> [k \in 1..(Len(cm[r]) - 1) |-> RelErr(cm[r][k + 1], tm[r][k + 1])]]

RECURSIVE MaxOf(_)
MaxOf(S) ==
    IF S = {} THEN 0
    ELSE LET x == CHOOSE y \in S : TRUE
             m == MaxOf(S \ {x})
         IN  IF x > m THEN x ELSE m

\* np.linalg.norm(v, ord=np.inf) of a vector of non-negative numbers
norm_inf(v) == MaxOf(Range(v))

\* the norm over axis 1, then over axis 0
rel_err_inf(d) == norm_inf([r \in DOMAIN d |-> norm_inf(d[r])])

\* loc[1][0]: the column (0-based) of the first entry, row by row, that
\* equals the maximum
loc_column(d) ==
    LET hits == {<<r, k>> \in (DOMAIN d) \X (DOMAIN d[1]) : d[r][k] = rel_err_inf(d)}
        first == CHOOSE h \in hits : \A g \in hits :
                     h[1] < g[1] \/ (h[1] = g[1] /\ h[2] <= g[2])
    IN  first[2] - 1

\* the norm of column ind (0-based) of diff
column_err(d, ind) == norm_inf([r \in DOMAIN d |-> d[r][ind + 1]])

\* x * 100: a fraction as a percentage
Percent(x) == x * 100

\* the lines validate prints for one comparison
Printed(c, t, cm, tm) ==
    LET d == diff(cm, tm)
    IN  (IF "T" \in Range(fields)
         THEN <<[kind |-> "temperature", case |-> c, time |-> t,
                 value |-> Percent(column_err(d, index("T", fields))), field |-> "T"]>>
         ELSE <<>>)
        \o (IF "p" \in Range(fields)
            THEN <<[kind |-> "pressure", case |-> c, time |-> t,
                    value |-> Percent(column_err(d, index("p", fields))), field |-> "p"]>>
            ELSE <<>>)
        \o <<[kind |-> "summary", case |-> c, time |-> t,
              value |-> Percent(rel_err_inf(d)), field |-> fields[loc_column(d) + 1]]>>

----------------------------------------------------------------------------
(* SpecValidate: a run of validate(times, results, fields) on what load      *)
(* returned for the time list. The mean error printed on the summary line    *)
(* (an L2 norm) is left out: it decides nothing else.                        *)

InitValidate ==
    /\ fields \in ValidateFields
    /\ timelist \in ValidateTimeLists
    /\ force = FALSE /\ caselist = <<>> /\ for_extract = FALSE
    /\ pc = "times" /\ exc = "none"
    /\ todo = <<>> /\ case = "none"
    /\ field_list = <<>> /\ yielded = <<>> /\ log = <<>>
    /\ listing = {} /\ time = "none" /\ composite_fields = None
    /\ results \in ResultsFor(timelist)
    /\ timev = Range(timelist)
    /\ missed = {} /\ assembled = {}
    /\ vtimes = Range(timelist)
    /\ comp = None
    /\ vcases = <<>>
    /\ out = <<>>
    /\ IdleExtract

\* for time in times: comp = results[base][time]
ValidateBaseline ==
    /\ pc = "times"
    /\ \E t \in vtimes :
          /\ base \in DOMAIN results /\ t \in DOMAIN results[base]
          /\ vtimes' = vtimes \ {t}
          /\ time' = t
          /\ comp' = results[base][t]
    /\ vcases' = SelectSeq(ResultCases, LAMBDA c : c \in DOMAIN results)
    /\ pc' = "cases"
    /\ UNCHANGED <<inputs, exc, todo, case, field_list, yielded, log, listing,
                   composite_fields, results, timev, missed, assembled, out,
                   extractVars>>

\* results[base][time] when the baseline has no such entry
ValidateKeyError ==
    /\ pc = "times"
    /\ \E t \in vtimes :
          /\ ~(base \in DOMAIN results /\ t \in DOMAIN results[base])
          /\ vtimes' = vtimes \ {t}
          /\ time' = t
    /\ exc' = "KeyError"
    /\ pc' = "raised"
    /\ UNCHANGED <<inputs, todo, case, field_list, yielded, log, listing,
                   composite_fields, results, timev, missed, assembled, comp,
                   vcases, out, extractVars>>

ValidateReturn ==
    /\ pc = "times" /\ vtimes = {}
    /\ pc' = "returned"
    /\ UNCHANGED <<inputs, exc, todo, case, field_list, yielded, log, loadVars,
                   validateVars, extractVars>>

\* for case in results: the baseline itself and a case without the time
ValidateSkip ==
    /\ pc = "cases" /\ vcases # <<>>
    /\ Head(vcases) = base \/ time \notin DOMAIN results[Head(vcases)]
    /\ case' = Head(vcases)
    /\ vcases' = Tail(vcases)
    /\ UNCHANGED <<inputs, pc, exc, todo, field_list, yielded, log, loadVars,
                   vtimes, comp, out, extractVars>>

ValidateCompare ==
    /\ pc = "cases" /\ vcases # <<>>
    /\ Head(vcases) # base /\ time \in DOMAIN results[Head(vcases)]
    /\ case' = Head(vcases)
    /\ vcases' = Tail(vcases)
    /\ out' = out \o Printed(Head(vcases), time, comp, results[Head(vcases)][time])
    /\ UNCHANGED <<inputs, pc, exc, todo, field_list, yielded, log, loadVars,
                   vtimes, comp, extractVars>>

ValidateCasesDone ==
    /\ pc = "cases" /\ vcases = <<>>
    /\ pc' = "times"
    /\ UNCHANGED <<inputs, exc, todo, case, field_list, yielded, log, loadVars,
                   validateVars, extractVars>>

NextValidate ==
    \/ ValidateBaseline
    \/ ValidateKeyError
    \/ ValidateReturn
    \/ ValidateSkip
    \/ ValidateCompare
    \/ ValidateCasesDone

SpecValidate == InitValidate /\ [][NextValidate]_vars

----------------------------------------------------------------------------
(* Properties of SpecValidate.                                               *)

Compared(c, t) == \E i \in DOMAIN out : out[i].kind = "summary" /\ out[i].case = c /\ out[i].time = t

\* C3: validate raises nothing when data is missing: a time the baseline
\* lacks and a candidate without the time are skipped, and every comparison
\* that has both matrices is reported.
C3_MissingDataIsSkipped ==
    /\ exc = "none"
    /\ pc = "returned" =>
          \A t \in Range(timelist) : \A c \in DOMAIN results \ {base} :
              (base \in DOMAIN results /\ t \in DOMAIN results[base]
                   /\ t \in DOMAIN results[c]) => Compared(c, t)

\* what holds of C3: missing candidates are skipped, the rest is reported
C3_CandidatesSkipped ==
    /\ exc \in {"none", "KeyError"}
    /\ \A i \in DOMAIN out : out[i].case # base /\ out[i].time \in DOMAIN results[out[i].case]
    /\ pc = "returned" =>
          \A t \in Range(timelist) : \A c \in DOMAIN results \ {base} :
              t \in DOMAIN results[c] => Compared(c, t)

OnePercent == Percent(Ppm \div 100)

\* the comparison of the scenario: fields T and p, the two matrices
IsScenario(e) ==
    /\ fields = <<"T", "p">>
    /\ results[base][e.time] = BaselineMatrix
    /\ results[e.case][e.time] = CandidateMatrix

\* C9 as stated: in the scenario T is off by 1% at point 0, the reported
\* inf-norm error is 1%, and the pressure error is 0%.
C9_Original ==
    \A i \in DOMAIN out : IsScenario(out[i]) =>
        /\ Percent(diff(BaselineMatrix, CandidateMatrix)[1][1]) = OnePercent
        /\ out[i].kind = "temperature" => out[i].value = OnePercent
        /\ out[i].kind = "summary" => out[i].value = OnePercent
        /\ out[i].kind = "pressure" => out[i].value = 0

\* C9 amended: the same, with a pressure error of 1% (at point 1 the
\* pressures are 1.01e5 and 1.0201e5).
C9_ScenarioErrors ==
    \A i \in DOMAIN out : IsScenario(out[i]) =>
        /\ Percent(diff(BaselineMatrix, CandidateMatrix)[1][1]) = OnePercent
        /\ out[i].kind = "temperature" => out[i].value = OnePercent
        /\ out[i].kind = "summary" => out[i].value = OnePercent
        /\ out[i].kind = "pressure" => out[i].value = OnePercent

C9_Witness ==
    \E i \in DOMAIN out : IsScenario(out[i]) /\ out[i].kind = "summary"

=============================================================================
